---- MODULE Spec2Model ----
(***************************************************************************)
(* Model of streamlit_app.py: the question engine (AdaptiveTestingEngine),  *)
(* one skill's adaptive session (AdaptiveTestSession) and the Streamlit     *)
(* script that runs the five skills.                                        *)
(*                                                                          *)
(* Spec    : one AdaptiveTestSession object driven by an arbitrary caller   *)
(*           through get_next_question / submit_answer.                     *)
(* SpecApp : the Streamlit script, one run of the script per step.          *)
(***************************************************************************)
EXTENDS Naturals, Sequences, FiniteSets, TLC

VARIABLES
    questions_by_key,   \* AdaptiveTestingEngine.questions_by_key
    session,            \* the fields of one AdaptiveTestSession
    ret,                \* what the last call on the session returned
    pending,            \* caller: a question was presented since the last
                        \* accepted answer
    strays,             \* caller: accepted calls made out of turn so far
    app_state,          \* st.session_state.app_state
    skill_idx,          \* st.session_state.skill_idx
    sessions,           \* st.session_state.sessions, skill -> session
    seniority,          \* st.session_state.seniority
    account,            \* st.session_state.account
    current_question,   \* st.session_state.current_question
    saves,              \* summary files written by save_summary_local
    ui                  \* what the last run of the script showed

sessVars == <<questions_by_key, session, ret, pending, strays>>
appVars  == <<app_state, skill_idx, sessions, seniority, account,
              current_question, saves, ui>>
vars     == <<questions_by_key, session, ret, pending, strays, app_state, skill_idx, sessions,
              seniority, account, current_question, saves, ui>>

(***************************************************************************)
(* Bounds and input data                                                    *)
(***************************************************************************)

\* The caller is meant to alternate get_next_question and submit_answer. A
\* call out of turn that the session accepts (a second question while one is
\* pending, a second answer to the same question) is a stray call; the model
\* follows callers that make at most MaxStrays of them.
MaxStrays == 1

\* A session with an unrecognized starting tier accepts answers without end;
\* the model stops submitting to it once it holds this many.
MaxUnrecognizedAnswers == 2

\* The longest sequence of answers replayed on a tree when a tree is walked
\* without a session; no tree takes more than five answers.
MaxReplayLen == 5

SKILLS == <<"html", "css", "javascript", "react", "github">>

\* The four tiers of the selectbox, lowest first.
Seniorities == <<"fresher", "junior", "middle", "senior">>

\* A tier name the selectbox does not offer; __init__ accepts any string.
UnknownSeniority == "intern"

Levels == 1..5

\* The value of final_result / current_question before it is set (None).
None == "None"

(***************************************************************************)
(* Question records and the engine                                          *)
(***************************************************************************)

\* The options of a stored question, in stored order: exactly one is correct.
StoredOptions ==
    << [description |-> "a", isAnswerKey |-> TRUE],
       [description |-> "b", isAnswerKey |-> FALSE] >>

\* One record of merged_file.json.
QuestionRecord(skill, sen, level) ==
    [ id        |-> <<skill, sen, level>>,
      skill     |-> skill,
      seniority |-> sen,
      level     |-> level,
      options   |-> StoredOptions ]

\* The skills the repository holds questions for in the model.
BankSkills == {SKILLS[1], SKILLS[2]}

\* The (tier, level) pairs a question file may cover: every level of the four
\* tiers, and level 3 of the unrecognized tier.
BankCells ==
    ({Seniorities[i] : i \in DOMAIN Seniorities} \X Levels)
        \cup {<<UnknownSeniority, 3>>}

\* A question file: one record per skill and covered cell, except that it
\* holds no question of the given skill at the levels in empty_levels.
QuestionsData(skill, empty_levels) ==
    { QuestionRecord(sk, c[1], c[2]) : sk \in BankSkills, c \in BankCells }
        \ { QuestionRecord(skill, c[1], c[2]) :
              c \in { d \in BankCells : d[2] \in empty_levels } }

\* The sets of levels a question file of the model may lack for a skill.
EmptyLevelChoices == { {}, {3}, {1, 5}, {2, 4} }

\* f"{skill}_{seniority}_{level}"
Key(skill, sen, level) == <<skill, sen, level>>

\* AdaptiveTestingEngine.__init__: group the records by key.
AdaptiveTestingEngine_init(questions_data) ==
    [ k \in { Key(q.skill, q.seniority, q.level) : q \in questions_data } |->
        { q \in questions_data : Key(q.skill, q.seniority, q.level) = k } ]

\* Mutant of get_question: an empty pool falls back on the tier's other levels.
get_question_other_level(skill, sen, level) ==
    LET key  == Key(skill, sen, level)
        pool == IF key \in DOMAIN questions_by_key
                THEN questions_by_key[key]
                ELSE UNION { questions_by_key[k] :
                               k \in { j \in DOMAIN questions_by_key :
                                         j[1] = skill /\ j[2] = sen } }
    IN  pool

\* Mutant of get_question: the key is built without the skill.
get_question_any_skill(skill, sen, level) ==
    UNION { questions_by_key[k] :
              k \in { j \in DOMAIN questions_by_key :
                        j[2] = sen /\ j[3] = level } }

\* AdaptiveTestingEngine.get_question: the records random.choice may return;
\* the empty set stands for the return value None.
get_question(skill, sen, level) ==
    LET key  == Key(skill, sen, level)
        pool == IF key \in DOMAIN questions_by_key
                THEN questions_by_key[key] ELSE {}
    IN  pool

\* The strings f"{letter}{level}" for the levels 1..5.
LevelStrings ==
    [ F |-> <<"F1", "F2", "F3", "F4", "F5">>,
      J |-> <<"J1", "J2", "J3", "J4", "J5">>,
      M |-> <<"M1", "M2", "M3", "M4", "M5">>,
      S |-> <<"S1", "S2", "S3", "S4", "S5">>,
      Q |-> <<"?1", "?2", "?3", "?4", "?5">> ]

\* AdaptiveTestingEngine.format_level_string
format_level_string(sen, level) ==
    LET letter == CASE sen = "fresher" -> "F"
                    [] sen = "junior"  -> "J"
                    [] sen = "middle"  -> "M"
                    [] sen = "senior"  -> "S"
                    [] OTHER           -> "Q"
    IN  LevelStrings[letter][level]

\* The orders random.shuffle may leave a list of options in.
Shuffles(options) ==
    { [i \in DOMAIN options |-> options[p[i]]] :
        p \in { f \in [DOMAIN options -> DOMAIN options] :
                  \A i, j \in DOMAIN options : i # j => f[i] # f[j] } }

(***************************************************************************)
(* AdaptiveTestSession                                                      *)
(***************************************************************************)

\* AdaptiveTestSession.__init__
AdaptiveTestSession_init(skill, start_seniority) ==
    [ skill              |-> skill,
      starting_seniority |-> start_seniority,
      current_seniority  |-> start_seniority,
      current_level      |-> 3,
      answer_history     |-> <<>>,
      question_history   |-> <<>>,
      is_finished        |-> FALSE,
      final_result       |-> None,
      failed             |-> FALSE,
      path_state         |-> "initial" ]

\* Mutant of _finish_test: the result is named after the state the last
\* answer was given at, not after the label passed.
_finish_test_labels_by_state(s, label, failed) ==
    [s EXCEPT !.is_finished = TRUE,
              !.final_result = IF label = "NO_QUESTION_AVAILABLE"
                               THEN label ELSE s.path_state,
              !.failed = failed]

\* Mutant of _finish_test: is_finished is not set.
_finish_test_stays_open(s, label, failed) ==
    [s EXCEPT !.final_result = label, !.failed = failed]

\* Mutant of _finish_test: the failed argument is dropped.
_finish_test_never_failed(s, label, failed) ==
    [s EXCEPT !.is_finished = TRUE, !.final_result = label]

\* AdaptiveTestSession._finish_test
_finish_test(s, label, failed) ==
    [s EXCEPT !.is_finished = TRUE, !.final_result = label, !.failed = failed]

\* AdaptiveTestSession._get_result; answer_history holds the last answer
\* record, or nothing when there is none.
_get_result(s) ==
    [ is_finished    |-> s.is_finished,
      final_result   |-> s.final_result,
      failed         |-> s.failed,
      answer_history |-> IF s.answer_history # <<>>
                         THEN <<s.answer_history[Len(s.answer_history)]>>
                         ELSE <<>> ]

\* Mutant of Move: current_level is not assigned.
Move_keeps_level(s, sen, level, state) ==
    [s EXCEPT !.current_seniority = sen, !.path_state = state]

\* Mutant of Move: current_seniority is not assigned.
Move_keeps_seniority(s, sen, level, state) ==
    [s EXCEPT !.current_level = level, !.path_state = state]

\* Mutant of Move: path_state is not assigned.
Move_keeps_path_state(s, sen, level, state) ==
    [s EXCEPT !.current_seniority = sen, !.current_level = level]

\* The three assignments of a branch that continues the test.
Move(s, sen, level, state) ==
    [s EXCEPT !.current_seniority = sen, !.current_level = level,
              !.path_state = state]

\* AdaptiveTestSession._update_state_after_answer_middle; s already holds the
\* answer just appended, the result is the session after the call.
_update_state_after_answer_middle(s, is_correct) ==
    LET n  == Len(s.answer_history)
        ps == s.path_state
    IN
    IF n = 1 THEN
        IF is_correct THEN Move(s, "middle", 5, "M5")
                      ELSE Move(s, "middle", 1, "M1")
    ELSE IF n = 2 THEN
        IF ps = "M5" THEN
            IF is_correct THEN Move(s, "senior", 3, "S3")
                          ELSE Move(s, "middle", 4, "M4")
        ELSE IF ps = "M1" THEN
            IF is_correct THEN Move(s, "middle", 2, "M2")
                          ELSE Move(s, "junior", 3, "J3")
        ELSE s
    ELSE IF n = 3 THEN
        IF ps = "M2" THEN
            IF is_correct THEN _finish_test(s, "LEVELM2", FALSE)
                          ELSE _finish_test(s, "LEVELM1", FALSE)
        ELSE IF ps = "M4" THEN
            IF is_correct THEN _finish_test(s, "LEVELM4", FALSE)
                          ELSE _finish_test(s, "LEVELM3", FALSE)
        ELSE IF ps = "S3" THEN
            IF is_correct THEN Move(s, "senior", 5, "S5")
                          ELSE Move(s, "senior", 1, "S1")
        ELSE IF ps = "J3" THEN
            IF is_correct THEN Move(s, "junior", 5, "J5")
                          ELSE Move(s, "junior", 1, "J1")
        ELSE s
    ELSE IF n = 4 THEN
        IF ps = "S5" THEN
            IF is_correct THEN _finish_test(s, "LEVELS5", FALSE)
                          ELSE Move(s, "senior", 4, "S4")
        ELSE IF ps = "S1" THEN
            IF is_correct THEN Move(s, "senior", 2, "S2")
                          ELSE _finish_test(s, "LEVELM5", FALSE)
        ELSE IF ps = "J5" THEN
            IF is_correct THEN _finish_test(s, "LEVELJ5", FALSE)
                          ELSE Move(s, "junior", 4, "J4")
        ELSE IF ps = "J1" THEN
            IF is_correct THEN Move(s, "junior", 2, "J2")
                          ELSE _finish_test(s, "LEVELJ0", TRUE)
        ELSE s
    ELSE IF n = 5 THEN
        IF ps = "S4" THEN
            IF is_correct THEN _finish_test(s, "LEVELS4", FALSE)
                          ELSE _finish_test(s, "LEVELS3", FALSE)
        ELSE IF ps = "S2" THEN
            IF is_correct THEN _finish_test(s, "LEVELS2", FALSE)
                          ELSE _finish_test(s, "LEVELS1", FALSE)
        ELSE IF ps = "J4" THEN
            IF is_correct THEN _finish_test(s, "LEVELJ4", FALSE)
                          ELSE _finish_test(s, "LEVELJ3", FALSE)
        ELSE IF ps = "J2" THEN
            IF is_correct THEN _finish_test(s, "LEVELJ2", FALSE)
                          ELSE _finish_test(s, "LEVELJ1", FALSE)
        ELSE s
    ELSE s

\* AdaptiveTestSession._update_state_after_answer_senior
_update_state_after_answer_senior(s, is_correct) ==
    LET n  == Len(s.answer_history)
        ps == s.path_state
    IN
    IF n = 1 THEN
        IF is_correct THEN Move(s, "senior", 5, "S5")
                      ELSE Move(s, "senior", 1, "S1")
    ELSE IF n = 2 THEN
        IF ps = "S5" THEN
            IF is_correct THEN _finish_test(s, "LEVELS5", FALSE)
                          ELSE Move(s, "senior", 4, "S4")
        ELSE IF ps = "S1" THEN
            IF is_correct THEN Move(s, "senior", 2, "S2")
                          ELSE Move(s, "middle", 3, "M3")
        ELSE s
    ELSE IF n = 3 THEN
        IF ps = "S4" THEN
            IF is_correct THEN _finish_test(s, "LEVELS4", FALSE)
                          ELSE _finish_test(s, "LEVELS3", FALSE)
        ELSE IF ps = "S2" THEN
            IF is_correct THEN _finish_test(s, "LEVELS2", FALSE)
                          ELSE _finish_test(s, "LEVELS1", FALSE)
        ELSE IF ps = "M3" THEN
            IF is_correct THEN Move(s, "middle", 5, "M5")
                          ELSE Move(s, "middle", 1, "M1")
        ELSE s
    ELSE IF n = 4 THEN
        IF ps = "M5" THEN
            IF is_correct THEN _finish_test(s, "LEVELM5", FALSE)
                          ELSE Move(s, "middle", 4, "M4")
        ELSE IF ps = "M1" THEN
            IF is_correct THEN Move(s, "middle", 2, "M2")
                          ELSE _finish_test(s, "LEVELM0", TRUE)
        ELSE s
    ELSE IF n = 5 THEN
        IF ps = "M4" THEN
            IF is_correct THEN _finish_test(s, "LEVELM4", FALSE)
                          ELSE _finish_test(s, "LEVELM3", FALSE)
        ELSE IF ps = "M2" THEN
            IF is_correct THEN _finish_test(s, "LEVELM2", FALSE)
                          ELSE _finish_test(s, "LEVELM1", FALSE)
        ELSE s
    ELSE s

\* AdaptiveTestSession._update_state_after_answer_fresher
_update_state_after_answer_fresher(s, is_correct) ==
    LET n  == Len(s.answer_history)
        ps == s.path_state
    IN
    IF n = 1 THEN
        IF is_correct THEN Move(s, "fresher", 5, "F5")
                      ELSE Move(s, "fresher", 1, "F1")
    ELSE IF n = 2 THEN
        IF ps = "F5" THEN
            IF is_correct THEN Move(s, "junior", 3, "J3")
                          ELSE Move(s, "fresher", 4, "F4")
        ELSE IF ps = "F1" THEN
            IF is_correct THEN Move(s, "fresher", 2, "F2")
                          ELSE _finish_test(s, "LEVELF0", TRUE)
        ELSE s
    ELSE IF n = 3 THEN
        IF ps = "F4" THEN
            IF is_correct THEN _finish_test(s, "LEVELF4", FALSE)
                          ELSE _finish_test(s, "LEVELF3", FALSE)
        ELSE IF ps = "F2" THEN
            IF is_correct THEN _finish_test(s, "LEVELF2", FALSE)
                          ELSE _finish_test(s, "LEVELF1", FALSE)
        ELSE IF ps = "J3" THEN
            IF is_correct THEN Move(s, "junior", 5, "J5")
                          ELSE Move(s, "junior", 1, "J1")
        ELSE s
    ELSE IF n = 4 THEN
        IF ps = "J5" THEN
            IF is_correct THEN _finish_test(s, "LEVELJ5", FALSE)
                          ELSE Move(s, "junior", 4, "J4")
        ELSE IF ps = "J1" THEN
            IF is_correct THEN Move(s, "junior", 2, "J2")
                          ELSE _finish_test(s, "LEVELF5", FALSE)
        ELSE s
    ELSE IF n = 5 THEN
        IF ps = "J4" THEN
            IF is_correct THEN _finish_test(s, "LEVELJ4", FALSE)
                          ELSE _finish_test(s, "LEVELJ3", FALSE)
        ELSE IF ps = "J2" THEN
            IF is_correct THEN _finish_test(s, "LEVELJ2", FALSE)
                          ELSE _finish_test(s, "LEVELJ1", FALSE)
        ELSE s
    ELSE s

\* AdaptiveTestSession._update_state_after_answer_junior
_update_state_after_answer_junior(s, is_correct) ==
    LET n  == Len(s.answer_history)
        ps == s.path_state
    IN
    IF n = 1 THEN
        IF is_correct THEN Move(s, "junior", 5, "J5")
                      ELSE Move(s, "junior", 1, "J1")
    ELSE IF n = 2 THEN
        IF ps = "J5" THEN
            IF is_correct THEN Move(s, "middle", 3, "M3")
                          ELSE Move(s, "junior", 4, "J4")
        ELSE IF ps = "J1" THEN
            IF is_correct THEN Move(s, "junior", 2, "J2")
                          ELSE Move(s, "fresher", 3, "F3")
        ELSE s
    ELSE IF n = 3 THEN
        IF ps = "J2" THEN
            IF is_correct THEN _finish_test(s, "LEVELJ2", FALSE)
                          ELSE _finish_test(s, "LEVELJ1", FALSE)
        ELSE IF ps = "J4" THEN
            IF is_correct THEN _finish_test(s, "LEVELJ4", FALSE)
                          ELSE _finish_test(s, "LEVELJ3", FALSE)
        ELSE IF ps = "M3" THEN
            IF is_correct THEN Move(s, "middle", 5, "M5")
                          ELSE Move(s, "middle", 1, "M1")
        ELSE IF ps = "F3" THEN
            IF is_correct THEN Move(s, "fresher", 5, "F5")
                          ELSE Move(s, "fresher", 1, "F1")
        ELSE s
    ELSE IF n = 4 THEN
        IF ps = "M5" THEN
            IF is_correct THEN _finish_test(s, "LEVELM5", FALSE)
                          ELSE Move(s, "middle", 4, "M4")
        ELSE IF ps = "M1" THEN
            IF is_correct THEN Move(s, "middle", 2, "M2")
                          ELSE _finish_test(s, "LEVELJ5", FALSE)
        ELSE IF ps = "F5" THEN
            IF is_correct THEN _finish_test(s, "LEVELF5", FALSE)
                          ELSE Move(s, "fresher", 4, "F4")
        ELSE IF ps = "F1" THEN
            IF is_correct THEN Move(s, "fresher", 2, "F2")
                          ELSE _finish_test(s, "LEVELF0", TRUE)
        ELSE s
    ELSE IF n = 5 THEN
        IF ps = "M4" THEN
            IF is_correct THEN _finish_test(s, "LEVELM4", FALSE)
                          ELSE _finish_test(s, "LEVELM3", FALSE)
        ELSE IF ps = "M2" THEN
            IF is_correct THEN _finish_test(s, "LEVELM2", FALSE)
                          ELSE _finish_test(s, "LEVELM1", FALSE)
        ELSE IF ps = "F4" THEN
            IF is_correct THEN _finish_test(s, "LEVELF4", FALSE)
                          ELSE _finish_test(s, "LEVELF3", FALSE)
        ELSE IF ps = "F2" THEN
            IF is_correct THEN _finish_test(s, "LEVELF2", FALSE)
                          ELSE _finish_test(s, "LEVELF1", FALSE)
        ELSE s
    ELSE s

\* What a call hands back: the call, the kind of value, the error message of
\* an error dict, and the value itself (a sequence of no or one record).
Returned(call, kind, error, value) ==
    [call |-> call, kind |-> kind, error |-> error, value |-> value]

\* Mutant of ShuffleCopy: random.shuffle is applied to the list of options of
\* the record drawn, which is the list the repository holds.
ShuffleCopy_in_place(q) ==
    { [shuffled_q |-> [q EXCEPT !.options = shuffled_options],
       stored_q   |-> [q EXCEPT !.options = shuffled_options]] :
        shuffled_options \in Shuffles(q.options) }

\* Lines 198-201: q.copy() and q["options"].copy() are new objects, and
\* random.shuffle reorders the copy of the list. shuffled_q is the copy with
\* its options in one of the orders the shuffle may leave; stored_q is the
\* record drawn as the repository holds it afterwards.
ShuffleCopy(q) ==
    { [shuffled_q |-> [q EXCEPT !.options = shuffled_options],
       stored_q   |-> q] :
        shuffled_options \in Shuffles(q.options) }

\* The repository once the record q drawn from it is left as stored_q.
StoreBack(q, stored_q) ==
    [ k \in DOMAIN questions_by_key |->
        IF q \in questions_by_key[k]
        THEN (questions_by_key[k] \ {q}) \cup {stored_q}
        ELSE questions_by_key[k] ]

\* AdaptiveTestSession.get_next_question: every (session after, return value,
\* repository after) the call may end with, over the random choices it makes.
get_next_question(s) ==
    IF s.is_finished THEN
        { [session |-> s,
           ret |-> Returned("get_next_question", "None", "", <<>>),
           questions_by_key |-> questions_by_key] }
    ELSE
        LET qs == get_question(s.skill, s.current_seniority, s.current_level)
        IN  IF qs = {} THEN
                { [session |-> _finish_test(s, "NO_QUESTION_AVAILABLE", TRUE),
                   ret |-> Returned("get_next_question", "None", "", <<>>),
                   questions_by_key |-> questions_by_key] }
            ELSE
                UNION {
                    { [session |-> [s EXCEPT !.question_history =
                                                 Append(@, c.shuffled_q)],
                       ret |-> Returned("get_next_question", "question",
                                        "", <<c.shuffled_q>>),
                       questions_by_key |-> StoreBack(q, c.stored_q)] :
                        c \in ShuffleCopy(q) } :
                    q \in qs }

\* Mutant of Dispatch: a middle session is handed to the senior tree.
Dispatch_middle_as_senior(s, correct) ==
    LET result(t) == [session |-> t,
                      ret |-> Returned("submit_answer", "result", "",
                                       <<_get_result(t)>>)]
    IN
    IF s.starting_seniority = "fresher" THEN
        result(_update_state_after_answer_fresher(s, correct))
    ELSE IF s.starting_seniority = "junior" THEN
        result(_update_state_after_answer_junior(s, correct))
    ELSE IF s.starting_seniority = "middle" THEN
        result(_update_state_after_answer_senior(s, correct))
    ELSE IF s.starting_seniority = "senior" THEN
        result(_update_state_after_answer_senior(s, correct))
    ELSE
        [session |-> s,
         ret |-> Returned("submit_answer", "error", "Invalid seniority", <<>>)]

\* Mutant of Dispatch: the tree is walked on "the first option was chosen"
\* instead of the correctness looked up in the options as shown.
Dispatch_by_selected_index(s, correct) ==
    LET result(t) == [session |-> t,
                      ret |-> Returned("submit_answer", "result", "",
                                       <<_get_result(t)>>)]
        first     == s.answer_history[Len(s.answer_history)].selected_index = 0
    IN
    IF s.starting_seniority = "fresher" THEN
        result(_update_state_after_answer_fresher(s, first))
    ELSE IF s.starting_seniority = "junior" THEN
        result(_update_state_after_answer_junior(s, first))
    ELSE IF s.starting_seniority = "middle" THEN
        result(_update_state_after_answer_middle(s, first))
    ELSE IF s.starting_seniority = "senior" THEN
        result(_update_state_after_answer_senior(s, first))
    ELSE
        [session |-> s,
         ret |-> Returned("submit_answer", "error", "Invalid seniority", <<>>)]

\* The dispatch at the end of submit_answer: (session after, return value).
Dispatch(s, correct) ==
    LET result(t) == [session |-> t,
                      ret |-> Returned("submit_answer", "result", "",
                                       <<_get_result(t)>>)]
    IN
    IF s.starting_seniority = "fresher" THEN
        result(_update_state_after_answer_fresher(s, correct))
    ELSE IF s.starting_seniority = "junior" THEN
        result(_update_state_after_answer_junior(s, correct))
    ELSE IF s.starting_seniority = "middle" THEN
        result(_update_state_after_answer_middle(s, correct))
    ELSE IF s.starting_seniority = "senior" THEN
        result(_update_state_after_answer_senior(s, correct))
    ELSE
        [session |-> s,
         ret |-> Returned("submit_answer", "error", "Invalid seniority", <<>>)]

\* Mutant of submit_answer: the guard does not look at is_finished.
submit_answer_after_finish(s, selected_idx) ==
    IF s.question_history = <<>> THEN
        [session |-> s,
         ret |-> Returned("submit_answer", "error", "No active question", <<>>)]
    ELSE
        LET question == s.question_history[Len(s.question_history)]
            correct  == question.options[selected_idx + 1].isAnswerKey
            answered == [s EXCEPT !.answer_history =
                            Append(@, [question_id    |-> question.id,
                                       selected_index |-> selected_idx,
                                       is_correct     |-> correct])]
        IN  Dispatch(answered, correct)

\* Mutant of submit_answer: the answer record takes is_correct from the
\* options in stored order, the tree the correctness in the order shown.
submit_answer_records_stored_order(s, selected_idx) ==
    IF s.is_finished \/ s.question_history = <<>> THEN
        [session |-> s,
         ret |-> Returned("submit_answer", "error", "No active question", <<>>)]
    ELSE
        LET question == s.question_history[Len(s.question_history)]
            correct  == question.options[selected_idx + 1].isAnswerKey
            answered == [s EXCEPT !.answer_history =
                            Append(@, [question_id    |-> question.id,
                                       selected_index |-> selected_idx,
                                       is_correct     |->
                                           StoredOptions[selected_idx + 1]
                                               .isAnswerKey])]
        IN  Dispatch(answered, correct)

\* AdaptiveTestSession.submit_answer, selected_idx counted from 0 as in the
\* source: (session after, return value).
submit_answer(s, selected_idx) ==
    IF s.is_finished \/ s.question_history = <<>> THEN
        [session |-> s,
         ret |-> Returned("submit_answer", "error", "No active question", <<>>)]
    ELSE
        LET question == s.question_history[Len(s.question_history)]
            correct  == question.options[selected_idx + 1].isAnswerKey
            answered == [s EXCEPT !.answer_history =
                            Append(@, [question_id    |-> question.id,
                                       selected_index |-> selected_idx,
                                       is_correct     |-> correct])]
        IN  Dispatch(answered, correct)

(***************************************************************************)
(* The session driven by a caller                                           *)
(***************************************************************************)

\* The starting tiers a session is constructed with.
StartSeniorities ==
    {Seniorities[i] : i \in DOMAIN Seniorities} \cup {UnknownSeniority}

\* The positions of a question's options, counted from 0; a position outside
\* the list raises IndexError at line 210, before anything is assigned.
SelectedIdx == 0 .. (Len(StoredOptions) - 1)

\* Module start-up (the engine built from the question file, the keys of
\* st.session_state set on the first run) and the construction of one session.
Init ==
    \E skill \in BankSkills, start \in StartSeniorities,
       empty_levels \in EmptyLevelChoices :
        /\ questions_by_key =
               AdaptiveTestingEngine_init(QuestionsData(skill, empty_levels))
        /\ session = AdaptiveTestSession_init(skill, start)
        /\ ret = Returned("__init__", "None", "", <<>>)
        /\ pending = FALSE
        /\ strays = 0
        /\ app_state = "choose_meta"
        /\ skill_idx = 0
        /\ sessions = <<>>
        /\ seniority = "middle"
        /\ account = ""
        /\ current_question = None
        /\ saves = 0
        /\ ui = "none"

\* A caller calls session.get_next_question().
GetNextQuestion ==
    \E o \in get_next_question(session) :
        LET presented == Len(o.session.question_history)
                             > Len(session.question_history)
        IN  /\ strays' = IF presented /\ pending THEN strays + 1 ELSE strays
            /\ strays' <= MaxStrays
            /\ pending' = (pending \/ presented)
            /\ session' = o.session
            /\ ret' = o.ret
            /\ questions_by_key' = o.questions_by_key
            /\ UNCHANGED appVars

\* A caller calls session.submit_answer(selected_idx).
SubmitAnswer ==
    \E selected_idx \in SelectedIdx :
        LET o == submit_answer(session, selected_idx)
            accepted == Len(o.session.answer_history)
                            > Len(session.answer_history)
        IN  /\ strays' = IF accepted /\ ~pending THEN strays + 1 ELSE strays
            /\ strays' <= MaxStrays
            /\ pending' = (pending /\ ~accepted)
            /\ (session.starting_seniority = UnknownSeniority
                    => Len(o.session.answer_history) <= MaxUnrecognizedAnswers)
            /\ session' = o.session
            /\ ret' = o.ret
            /\ UNCHANGED <<questions_by_key, appVars>>

Next == GetNextQuestion \/ SubmitAnswer

Spec == Init /\ [][Next]_vars

(***************************************************************************)
(* The Streamlit script: one run of the script per step                     *)
(***************************************************************************)

\* The texts typed into the account field in the model.
AccountInputs == {"", " ", "acc"}

\* str.strip on those texts.
Strip(text) == IF text = " " THEN "" ELSE text

\* The methods class AdaptiveTestSession defines.
SessionMethods ==
    { "__init__", "_finish_test", "_get_result", "get_next_question",
      "submit_answer", "_update_state_after_answer_middle",
      "_update_state_after_answer_senior",
      "_update_state_after_answer_fresher",
      "_update_state_after_answer_junior" }

\* hasattr(s, name): the instance attributes __init__ sets (the fields of the
\* record, and engine) and the methods of the class.
HasAttr(s, name) == name \in (DOMAIN s \cup {"engine"} \cup SessionMethods)

\* choose_meta flow, the start button clicked with the two widgets' values.
ChooseMeta ==
    /\ app_state = "choose_meta"
    /\ \E account_input \in AccountInputs,
          selected \in {Seniorities[i] : i \in DOMAIN Seniorities} :
        IF Strip(account_input) = "" THEN
            /\ ui' = "warning"
            /\ UNCHANGED <<app_state, skill_idx, sessions, seniority, account,
                           current_question, saves>>
        ELSE
            LET first_skill == SKILLS[1]
            IN  /\ account' = Strip(account_input)
                /\ seniority' = selected
                /\ sessions' = (first_skill :>
                                   AdaptiveTestSession_init(first_skill, selected))
                                @@ sessions
                /\ app_state' = "ask_question"
                /\ ui' = "rerun"
                /\ UNCHANGED <<skill_idx, current_question, saves>>
    /\ UNCHANGED sessVars

\* ask_question flow. The script reads session.finished, session.next_question
\* and session.submit; an attribute the object does not have raises
\* AttributeError, which ends the run with st.session_state as it was.
AskQuestion ==
    /\ app_state = "ask_question"
    /\ LET skill == SKILLS[skill_idx + 1]
           sess  == sessions[skill]
       IN  IF ~HasAttr(sess, "finished") THEN
               /\ ui' = "AttributeError"
               /\ UNCHANGED <<app_state, skill_idx, sessions, seniority,
                              account, current_question, saves>>
           ELSE IF sess.finished THEN
               /\ skill_idx' = skill_idx + 1
               /\ IF skill_idx' < Len(SKILLS) THEN
                      LET next_skill == SKILLS[skill_idx' + 1]
                      IN  /\ sessions' = (next_skill :>
                                  AdaptiveTestSession_init(next_skill, seniority))
                                  @@ sessions
                          /\ UNCHANGED app_state
                  ELSE
                      /\ app_state' = "summary"
                      /\ UNCHANGED sessions
               /\ ui' = "rerun"
               /\ UNCHANGED <<seniority, account, current_question, saves>>
           ELSE
               \* current_question is None: session.next_question() is called
               /\ ui' = IF ~HasAttr(sess, "next_question")
                        THEN "AttributeError" ELSE "question"
               /\ UNCHANGED <<app_state, skill_idx, sessions, seniority,
                              account, current_question, saves>>
    /\ UNCHANGED sessVars

\* summary flow, the save button clicked: save_summary_local writes one more
\* file and save_summary_to_github pushes it.
SummarySave ==
    /\ app_state = "summary"
    /\ saves' = saves + 1
    /\ ui' = "saved"
    /\ UNCHANGED <<app_state, skill_idx, sessions, seniority, account,
                   current_question>>
    /\ UNCHANGED sessVars

\* summary flow, the restart button clicked: every key of st.session_state
\* is deleted and the rerun sets them as on the first run.
SummaryRestart ==
    /\ app_state = "summary"
    /\ app_state' = "choose_meta"
    /\ skill_idx' = 0
    /\ sessions' = <<>>
    /\ seniority' = "middle"
    /\ account' = ""
    /\ current_question' = None
    /\ ui' = "rerun"
    /\ UNCHANGED saves
    /\ UNCHANGED sessVars

\* SummarySave and SummaryRestart are never enabled (SummaryNeverEntered
\* below), so the runs of the script are those of the other two flows.
NextApp == ChooseMeta \/ AskQuestion

SpecApp == Init /\ [][NextApp]_vars

\* The script never gets past the first read of session.finished, so the
\* summary flow that C10 is about is never entered.
SummaryNeverEntered ==
    /\ app_state # "summary"
    /\ skill_idx = 0
    /\ ~ENABLED SummarySave
    /\ ~ENABLED SummaryRestart

(***************************************************************************)
(* Properties                                                               *)
(***************************************************************************)

Recognized == session.starting_seniority \in
                  {Seniorities[i] : i \in DOMAIN Seniorities}

\* The is_correct values of the recorded answers, in order.
Correctness == [i \in DOMAIN session.answer_history |->
                   session.answer_history[i].is_correct]

\* No record of the question file has this skill, tier and level.
PoolEmpty(skill, sen, level) ==
    \A k \in DOMAIN questions_by_key : \A q \in questions_by_key[k] :
        ~(q.skill = skill /\ q.seniority = sen /\ q.level = level)

\* The step is a call of the named method (ret names the last call made).
Called(method) == ret'.call = method

\* C1: in every unfinished session of a recognized starting tier that has a
\* question to answer, a correct and an incorrect answer are both possible
\* and each either finishes the session or moves it to another path_state
\* (another (tier, level) with it): no answer falls through every branch.
C1_TableComplete ==
    (Recognized /\ ~session.is_finished /\ session.question_history # <<>>)
    => \A correct \in BOOLEAN : \E selected_idx \in SelectedIdx :
         LET t == submit_answer(session, selected_idx).session
         IN  /\ t.answer_history[Len(t.answer_history)].is_correct = correct
             /\ \/ t.is_finished
                \/ /\ t.path_state # session.path_state
                   /\ <<t.current_seniority, t.current_level>>
                        # <<session.current_seniority, session.current_level>>

\* C1 witness: a junior session, unfinished three answers deep, with a
\* question to answer.
C1_Witness ==
    /\ session.starting_seniority = "junior"
    /\ session.path_state = "F1"
    /\ Len(session.answer_history) = 3
    /\ ~session.is_finished
    /\ pending

\* C2: a session of a recognized starting tier never holds more than five
\* answers, and holds five only when it is finished.
C2_AtMostFiveAnswers ==
    Recognized =>
        /\ Len(session.answer_history) <= 5
        /\ (Len(session.answer_history) = 5 => session.is_finished)

\* C2 witness: a session finished by its fifth answer.
C2_Witness ==
    /\ Recognized
    /\ Len(session.answer_history) = 5
    /\ Len(session.question_history) = 5
    /\ session.is_finished

\* C3: on a finished session every call leaves the session as it is;
\* get_next_question returns None and submit_answer the "No active question"
\* error.
C3_FinishedIsFrozen ==
    [][ session.is_finished =>
          /\ session' = session
          /\ (Called("get_next_question") => ret'.kind = "None")
          /\ (Called("submit_answer") =>
                 ret'.kind = "error" /\ ret'.error = "No active question")
      ]_vars

\* C3 witness: a session finished by the tree on which a later submit_answer
\* was refused.
C3_Witness ==
    /\ session.is_finished
    /\ session.final_result = "LEVELM4"
    /\ ret.call = "submit_answer"
    /\ ret.kind = "error"

\* C4 (as claimed): submit_answer is refused with "No active question", and
\* changes nothing, whenever no question has been presented since the last
\* accepted answer.
C4_RefusedWithoutPendingQuestion ==
    [][ (~pending /\ Called("submit_answer")) =>
          /\ ret'.kind = "error"
          /\ ret'.error = "No active question"
          /\ session' = session
      ]_vars

\* C5: get_next_question on an unfinished session whose current pool is empty
\* returns None and only finishes the session, with NO_QUESTION_AVAILABLE and
\* failed; a session whose pool at (skill, starting tier, 3) is empty never
\* holds an answer and finishes in no other way.
C5_EmptyPoolFinishes ==
    /\ [][ ( /\ ~session.is_finished
             /\ PoolEmpty(session.skill, session.current_seniority,
                          session.current_level)
             /\ Called("get_next_question") )
           => /\ ret'.kind = "None"
              /\ session' = [session EXCEPT
                                !.is_finished = TRUE,
                                !.final_result = "NO_QUESTION_AVAILABLE",
                                !.failed = TRUE]
         ]_vars
    /\ [] ( PoolEmpty(session.skill, session.starting_seniority, 3)
            => /\ session.answer_history = <<>>
               /\ session.question_history = <<>>
               /\ session.is_finished
                    => /\ session.final_result = "NO_QUESTION_AVAILABLE"
                       /\ session.failed )

\* C5 witness: a session ended by an empty pool after it had answered.
C5_Witness ==
    /\ session.final_result = "NO_QUESTION_AVAILABLE"
    /\ session.failed
    /\ session.is_finished
    /\ Len(session.answer_history) = 2
    /\ ret.call = "get_next_question"

\* C6: a middle session answering correctly goes to M5, S3, S5 and its fourth
\* correct answer finishes it with LEVELS5, not failed.
C6_MiddleAllCorrect ==
    session.starting_seniority = "middle" =>
        /\ Correctness = <<TRUE>> => session.path_state = "M5"
        /\ Correctness = <<TRUE, TRUE>> => session.path_state = "S3"
        /\ Correctness = <<TRUE, TRUE, TRUE>> => session.path_state = "S5"
        /\ Correctness \in {<<TRUE>>, <<TRUE, TRUE>>, <<TRUE, TRUE, TRUE>>}
             => session.final_result \in {None, "NO_QUESTION_AVAILABLE"}
        /\ Correctness = <<TRUE, TRUE, TRUE, TRUE>>
             => /\ session.is_finished
                /\ session.final_result = "LEVELS5"
                /\ ~session.failed
                /\ session.path_state = "S5"

\* C6 witness: four correct answers given in turn by a middle session.
C6_Witness ==
    /\ session.starting_seniority = "middle"
    /\ Correctness = <<TRUE, TRUE, TRUE, TRUE>>
    /\ Len(session.question_history) = 4
    /\ strays = 0

\* C7 (as claimed): a middle session is finished with LEVELJ0 and failed
\* after three incorrect answers (here: of a caller that made no call out of
\* turn).
C7_ThreeIncorrectFinish ==
    (session.starting_seniority = "middle"
        /\ Correctness = <<FALSE, FALSE, FALSE>>
        /\ strays = 0)
    => /\ session.is_finished
       /\ session.final_result = "LEVELJ0"
       /\ session.failed

\* C7 (amended): a middle session answering incorrectly goes to M1, J3, J1;
\* after three incorrect answers it has no tree outcome yet, and the fourth
\* incorrect answer finishes it with LEVELJ0 and failed.
C7_FourIncorrectFinish ==
    session.starting_seniority = "middle" =>
        /\ Correctness = <<FALSE>> => session.path_state = "M1"
        /\ Correctness = <<FALSE, FALSE>> => session.path_state = "J3"
        /\ Correctness = <<FALSE, FALSE, FALSE>> => session.path_state = "J1"
        /\ Correctness \in {<<FALSE>>, <<FALSE, FALSE>>,
                            <<FALSE, FALSE, FALSE>>}
             => session.final_result \in {None, "NO_QUESTION_AVAILABLE"}
        /\ Correctness = <<FALSE, FALSE, FALSE, FALSE>>
             => /\ session.is_finished
                /\ session.final_result = "LEVELJ0"
                /\ session.failed
                /\ session.path_state = "J1"

\* C7 witness: four incorrect answers given in turn by a middle session.
C7_Witness ==
    /\ session.starting_seniority = "middle"
    /\ Correctness = <<FALSE, FALSE, FALSE, FALSE>>
    /\ Len(session.question_history) = 4
    /\ strays = 0

\* C8 (as claimed): after every submit_answer call, and once the session is
\* finished, it holds as many answers as presented questions, whatever the
\* order of the calls.
C8_AnswersMatchQuestions ==
    (ret.call = "submit_answer" \/ session.is_finished)
    => Len(session.answer_history) = Len(session.question_history)

\* C9 (as claimed): a session with an unrecognized starting tier never holds
\* an answer, and its first get_next_question leaves it finished and failed.
C9_UnknownTierFailsAtOnce ==
    ~Recognized =>
        /\ session.answer_history = <<>>
        /\ (ret.call = "get_next_question"
               => session.is_finished /\ session.failed)

(***************************************************************************)
(* The trees walked without a session: replay of a correctness sequence     *)
(***************************************************************************)

\* The sequences of at most MaxReplayLen is_correct values.
BoolSeqs == UNION { [1..n -> BOOLEAN] : n \in 0..MaxReplayLen }

\* The root of a starting tier's tree. No question is fetched in a replay, so
\* the skill plays no part; the first of SKILLS stands for it.
ReplayRoot(start) == AdaptiveTestSession_init(SKILLS[1], start)

\* One recorded is_correct value replayed: the answer is counted and the
\* dispatch of submit_answer applied; no question is drawn or looked at.
ReplayAnswer(s, is_correct) ==
    Dispatch([s EXCEPT !.answer_history =
                 Append(@, [question_id    |-> None,
                            selected_index |-> 0,
                            is_correct     |-> is_correct])],
             is_correct).session

RECURSIVE Replay(_, _)
\* The values of seq replayed from s up to the first Terminate: the state
\* reached and the number of values left unread.
Replay(s, seq) ==
    IF seq = <<>> \/ s.is_finished
    THEN [session |-> s, unread |-> Len(seq)]
    ELSE Replay(ReplayAnswer(s, Head(seq)), Tail(seq))

\* The values path_state takes: "initial" and the letter-level strings.
PathStates ==
    {"initial"} \cup
    { format_level_string(Seniorities[i], level) :
        i \in DOMAIN Seniorities, level \in Levels }

\* For each tree and each path_state, the sequences of BoolSeqs whose replay
\* from the root reads every value and is left, unfinished, at that
\* path_state.
SequencesTo ==
    [ start \in {Seniorities[i] : i \in DOMAIN Seniorities} |->
        [ ps \in PathStates |->
            { seq \in BoolSeqs :
                LET r == Replay(ReplayRoot(start), seq)
                IN  /\ ~r.session.is_finished
                    /\ r.unread = 0
                    /\ r.session.path_state = ps } ] ]

\* The replay of the session's own recorded sequence from its tree's root.
Replayed == Replay(ReplayRoot(session.starting_seniority), Correctness)

\* C11 (as claimed): the replay of the recorded is_correct values of every
\* finished session ends in a Terminate, on the last value, with the
\* final_result and failed flag the session stores.
C11_ReplayReproducesOutcome ==
    session.is_finished =>
        /\ Replayed.session.is_finished
        /\ Replayed.unread = 0
        /\ Replayed.session.final_result = session.final_result
        /\ Replayed.session.failed = session.failed

\* C11 (amended): that holds of every session finished by an answer, i.e.
\* with a final_result other than NO_QUESTION_AVAILABLE; the replay of a
\* session finished by an empty pool reads its whole sequence and ends in no
\* Terminate, while the session stores NO_QUESTION_AVAILABLE and failed.
C11_ReplayReproducesTreeOutcome ==
    session.is_finished =>
        IF session.final_result # "NO_QUESTION_AVAILABLE" THEN
            /\ Replayed.session.is_finished
            /\ Replayed.unread = 0
            /\ Replayed.session.final_result = session.final_result
            /\ Replayed.session.failed = session.failed
        ELSE
            /\ ~Replayed.session.is_finished
            /\ Replayed.unread = 0
            /\ session.failed

\* C11 witness: a senior session finished by its fourth incorrect answer,
\* with the options of its questions shown in both orders.
C11_Witness ==
    /\ session.starting_seniority = "senior"
    /\ session.is_finished
    /\ session.final_result = "LEVELM0"
    /\ session.failed
    /\ Correctness = <<FALSE, FALSE, FALSE, FALSE>>
    /\ session.question_history[1].options # session.question_history[2].options

\* The outcome that goes with a starting tier and a correctness sequence
\* alone: the Terminate its replay ends in on its last value, and otherwise
\* the outcome of a session stopped by an empty pool.
OutcomeOf(start, seq) ==
    LET r == Replay(ReplayRoot(start), seq)
    IN  IF r.session.is_finished /\ r.unread = 0
        THEN <<r.session.final_result, r.session.failed>>
        ELSE <<"NO_QUESTION_AVAILABLE", TRUE>>

\* C12: the final_result and failed flag of every finished session are the
\* value of one function of its starting tier and its correctness sequence,
\* in which the skill, the questions drawn and the order of the options
\* shown play no part; so two finished sessions that agree on starting tier
\* and correctness sequence agree on final_result and failed.
C12_OutcomeDetermined ==
    session.is_finished =>
        <<session.final_result, session.failed>>
            = OutcomeOf(session.starting_seniority, Correctness)

\* C12 witness: a finished session of the second skill, questions of which
\* were shown with their options in both orders and answered at both
\* positions.
C12_Witness ==
    /\ session.is_finished
    /\ session.skill = SKILLS[2]
    /\ session.final_result = "LEVELM3"
    /\ session.question_history[1].options # session.question_history[2].options
    /\ session.answer_history[1].selected_index
           # session.answer_history[2].selected_index

\* The correctness sequence that led the session to its path_state: its
\* recorded sequence, without the last value when that one finished it.
AdvancePrefix ==
    IF session.is_finished /\ session.final_result # "NO_QUESTION_AVAILABLE"
    THEN SubSeq(Correctness, 1, Len(Correctness) - 1)
    ELSE Correctness

\* C13: in the tree of a recognized starting tier the sequence that led the
\* session to its path_state is the only one of BoolSeqs whose replay from
\* the root advances to that path_state.
C13_OnePathPerState ==
    Recognized =>
        SequencesTo[session.starting_seniority][session.path_state]
            = {AdvancePrefix}

\* C13 witness: a junior session four answers deep at F4.
C13_Witness ==
    /\ session.starting_seniority = "junior"
    /\ session.path_state = "F4"
    /\ Correctness = <<FALSE, FALSE, TRUE, FALSE>>
    /\ ~session.is_finished

(***************************************************************************)
(* The script's sessions (C14)                                              *)
(***************************************************************************)

\* Every run of the ask_question flow stops at the read of session.finished,
\* so the session of the first skill is the only one the script creates (with
\* the seniority chosen) and it is never driven: the cases C14 is about, a
\* second session and the entry into summary, do not occur.
OnlyFirstSessionCreated ==
    /\ DOMAIN sessions \subseteq {SKILLS[1]}
    /\ \A sk \in DOMAIN sessions :
         sessions[sk] = AdaptiveTestSession_init(sk, seniority)
    /\ app_state \in {"choose_meta", "ask_question"}

(***************************************************************************)
(* The shape of the trees (C15 - C18)                                       *)
(***************************************************************************)

\* The step is a submit_answer call that recorded an answer.
Answered ==
    /\ Called("submit_answer")
    /\ Len(session'.answer_history) = Len(session.answer_history) + 1

\* The is_correct value of the answer the step recorded.
AnsweredCorrectly ==
    session'.answer_history[Len(session'.answer_history)].is_correct

\* The step is an Advance of one of the four trees: an answer recorded by a
\* session of a recognized starting tier that leaves it unfinished.
Advance == Answered /\ Recognized /\ ~session'.is_finished

\* The position of a tier in Seniorities (fresher 1 .. senior 4).
TierIndex(sen) == CHOOSE i \in DOMAIN Seniorities : Seniorities[i] = sen

\* The place of (tier, level) in fresher1 < ... < fresher5 < junior1 < ... <
\* senior5.
Rank(sen, level) == (TierIndex(sen) - 1) * Cardinality(Levels) + level

\* C15: an Advance that changes current_seniority starts at level 5 with a
\* correct answer and goes to level 3 of the next higher tier, or starts at
\* level 1 with an incorrect answer and goes to level 3 of the next lower
\* tier; any other Advance leaves current_seniority as it is.
C15_TierChangesAtExtremes ==
    [][ (Advance /\ session'.current_seniority # session.current_seniority)
        => \/ /\ session.current_level = 5
              /\ AnsweredCorrectly
              /\ TierIndex(session'.current_seniority)
                     = TierIndex(session.current_seniority) + 1
              /\ session'.current_level = 3
           \/ /\ session.current_level = 1
              /\ ~AnsweredCorrectly
              /\ TierIndex(session'.current_seniority) + 1
                     = TierIndex(session.current_seniority)
              /\ session'.current_level = 3
      ]_vars

\* C15 witness: a junior session that fell from J1 to fresher level 3 and was
\* then moved within the fresher tier.
C15_Witness ==
    /\ session.starting_seniority = "junior"
    /\ Correctness = <<FALSE, FALSE, TRUE>>
    /\ session.current_seniority = "fresher"
    /\ session.current_level = 5

\* C16: an Advance on a correct answer takes the session to a strictly
\* higher (tier, level), an Advance on an incorrect answer to a strictly
\* lower one.
C16_CorrectUpIncorrectDown ==
    [][ Advance =>
          IF AnsweredCorrectly
          THEN Rank(session'.current_seniority, session'.current_level)
                 > Rank(session.current_seniority, session.current_level)
          ELSE Rank(session'.current_seniority, session'.current_level)
                 < Rank(session.current_seniority, session.current_level)
      ]_vars

\* C16 witness: a senior session that went down to middle level 3 and up
\* again to middle level 5.
C16_Witness ==
    /\ session.starting_seniority = "senior"
    /\ Correctness = <<FALSE, FALSE, TRUE>>
    /\ session.path_state = "M5"
    /\ ~session.is_finished

\* The labels an answer at an adjacent-level state ends with: for X4
\* <<LEVELX4, LEVELX3>>, for X2 <<LEVELX2, LEVELX1>> (correct, incorrect).
AdjacentLabels ==
    [ F4 |-> <<"LEVELF4", "LEVELF3">>, F2 |-> <<"LEVELF2", "LEVELF1">>,
      J4 |-> <<"LEVELJ4", "LEVELJ3">>, J2 |-> <<"LEVELJ2", "LEVELJ1">>,
      M4 |-> <<"LEVELM4", "LEVELM3">>, M2 |-> <<"LEVELM2", "LEVELM1">>,
      S4 |-> <<"LEVELS4", "LEVELS3">>, S2 |-> <<"LEVELS2", "LEVELS1">> ]

\* C17: an answer recorded at path_state X4 or X2 by a session of a recognized
\* starting tier finishes it, not failed, with the label of AdjacentLabels
\* for that state and correctness, and it is the session's third or fifth
\* answer.
C17_AdjacentLevelsTerminate ==
    [][ (Answered /\ Recognized /\ session.path_state \in DOMAIN AdjacentLabels)
        => /\ session'.is_finished
           /\ ~session'.failed
           /\ session'.final_result =
                  AdjacentLabels[session.path_state]
                                [IF AnsweredCorrectly THEN 1 ELSE 2]
           /\ Len(session'.answer_history) \in {3, 5}
      ]_vars

\* C17 witness: a fresher session finished with LEVELJ1 by its fifth answer,
\* given at J2.
C17_Witness ==
    /\ session.starting_seniority = "fresher"
    /\ session.is_finished
    /\ session.path_state = "J2"
    /\ session.final_result = "LEVELJ1"
    /\ Len(session.answer_history) = 5

\* C18: a path_state other than "initial" is the letter of current_seniority
\* followed by current_level; a session whose path_state is "initial" is at
\* level 3 of its starting tier.
C18_PathStateNamesTierLevel ==
    IF session.path_state # "initial"
    THEN session.path_state =
             format_level_string(session.current_seniority,
                                 session.current_level)
    ELSE /\ session.current_seniority = session.starting_seniority
         /\ session.current_level = 3

\* C18 witness: a middle session that crossed to the junior tier.
C18_Witness ==
    /\ session.starting_seniority = "middle"
    /\ session.path_state = "J3"
    /\ session.current_seniority = "junior"
    /\ session.current_level = 3
    /\ Len(session.answer_history) = 2

(***************************************************************************)
(* Questions and the repository (C19, C20)                                  *)
(***************************************************************************)

\* The step is a get_next_question call that appended a question.
Presented ==
    /\ Called("get_next_question")
    /\ Len(session'.question_history) = Len(session.question_history) + 1

\* shown is a record of the pool with its options in some order.
ShownFrom(shown, pool) ==
    \E q \in pool : /\ [shown EXCEPT !.options = q.options] = q
                    /\ shown.options \in Shuffles(q.options)

\* The pool the repository holds under the key of (skill, tier, level).
PoolAt(skill, sen, level) ==
    IF Key(skill, sen, level) \in DOMAIN questions_by_key
    THEN questions_by_key[Key(skill, sen, level)] ELSE {}

\* C19: the question a get_next_question call appends is a record of the pool
\* keyed by the session's skill and the current_seniority and current_level
\* it had when called; the first question of a session is one of the pool at
\* (skill, starting tier, 3).
C19_DrawnAtCurrentCell ==
    /\ [][ Presented =>
             ShownFrom(session'.question_history[Len(session'.question_history)],
                       PoolAt(session.skill, session.current_seniority,
                              session.current_level))
         ]_vars
    /\ [] ( session.question_history # <<>> =>
              ShownFrom(session.question_history[1],
                        PoolAt(session.skill, session.starting_seniority, 3)) )

\* C19 witness: a session of the second skill given its third question at
\* senior level 3 after starting at middle.
C19_Witness ==
    /\ session.skill = SKILLS[2]
    /\ session.starting_seniority = "middle"
    /\ Len(session.question_history) = 3
    /\ session.question_history[3].seniority = "senior"
    /\ session.question_history[3].level = 3
    /\ ret.call = "get_next_question"

\* C20: no get_next_question or submit_answer call changes questions_by_key,
\* and every record of every pool keeps its options in stored order.
C20_RepositoryReadOnly ==
    /\ [][ (Called("get_next_question") \/ Called("submit_answer"))
             => questions_by_key' = questions_by_key ]_vars
    /\ [] ( \A k \in DOMAIN questions_by_key : \A q \in questions_by_key[k] :
              q.options = StoredOptions )

\* C20 witness: a session that recorded, and answered, a question whose
\* options were shown in another order than the stored one, and drew from the
\* same pool again.
C20_Witness ==
    /\ Len(session.question_history) = 2
    /\ Len(session.answer_history) = 1
    /\ session.question_history[1].options # StoredOptions
    /\ session.question_history[2].id = session.question_history[1].id
    /\ session.question_history[2].options = StoredOptions

(***************************************************************************)
(* Answer records (C21)                                                     *)
(***************************************************************************)

\* The step is a submit_answer call that was not refused with
\* "No active question".
Accepted ==
    /\ Called("submit_answer")
    /\ ~(ret'.kind = "error" /\ ret'.error = "No active question")

\* C21: an accepted submit_answer(selected_idx) leaves answer_history with
\* one more record at its end, whose question_id is the id of the last
\* question of question_history and whose is_correct is the isAnswerKey of
\* the option at position selected_idx of that question's options as
\* recorded there (the order shown); question_history is left as it is.
C21_AnswerRecordAppended ==
    [][ Accepted =>
          LET question == session.question_history[
                              Len(session.question_history)]
          IN  /\ session'.question_history = session.question_history
              /\ \E selected_idx \in SelectedIdx :
                   session'.answer_history =
                       Append(session.answer_history,
                              [question_id    |-> question.id,
                               selected_index |-> selected_idx,
                               is_correct     |->
                                   question.options[selected_idx + 1]
                                       .isAnswerKey])
      ]_vars

\* C21 witness: the second position chosen on a question shown with its
\* options in the other order than stored, recorded as a correct answer
\* after an earlier record.
C21_Witness ==
    /\ ret.call = "submit_answer"
    /\ ret.kind = "result"
    /\ Len(session.answer_history) = 2
    /\ Len(session.question_history) = 2
    /\ session.question_history[2].options # StoredOptions
    /\ session.answer_history[2].selected_index = 1
    /\ session.answer_history[2].is_correct
    /\ session.answer_history[2].question_id = session.question_history[2].id

(***************************************************************************)
(* Progress (C22)                                                           *)
(***************************************************************************)

\* A caller that alternates: get_next_question when no question is pending,
\* submit_answer when one is.
GetNextQuestionInTurn == ~pending /\ GetNextQuestion

SubmitAnswerInTurn == pending /\ SubmitAnswer

NextAlternating == GetNextQuestionInTurn \/ SubmitAnswerInTurn

\* The alternating caller keeps calling.
SpecAlternating ==
    /\ Init
    /\ [][NextAlternating]_vars
    /\ WF_vars(GetNextQuestionInTurn)
    /\ WF_vars(SubmitAnswerInTurn)

\* The session part of C22: driven by the alternating caller, a session of a
\* recognized starting tier is eventually finished.
SessionEventuallyFinished == Recognized => <>(session.is_finished)

\* The script keeps being run: every interaction of the user reruns it.
SpecAppFair == Init /\ [][NextApp]_vars /\ WF_vars(NextApp)

\* C22 (as claimed), the orchestrator part: a run that has been started
\* (app_state "ask_question") eventually reaches the summary state.
C22_RunReachesSummary ==
    (app_state = "ask_question") ~> (app_state = "summary")

(***************************************************************************)
(* Outcomes of the trees (C23, C24, C26)                                    *)
(***************************************************************************)

\* The sequence of n values all equal to is_correct.
Constantly(is_correct, n) == [i \in 1..n |-> is_correct]

\* The Terminate the replay of the all-incorrect answers ends in, per tree.
AllIncorrectEnd ==
    [ start \in {Seniorities[i] : i \in DOMAIN Seniorities} |->
        Replay(ReplayRoot(start), Constantly(FALSE, MaxReplayLen)).session ]

\* C23: a finished session is failed exactly when it ended with
\* NO_QUESTION_AVAILABLE or none of its recorded answers was correct; a
\* failed session ended by an answer carries LEVELF0, LEVELJ0 or LEVELM0; and
\* in each tree the all-incorrect answers end in a Terminate with one of
\* these labels, failed.
C23_FailedMeansNoCorrectAnswer ==
    /\ session.is_finished =>
         /\ session.failed <=>
                \/ session.final_result = "NO_QUESTION_AVAILABLE"
                \/ \A i \in DOMAIN Correctness : ~Correctness[i]
         /\ (session.failed /\ session.final_result # "NO_QUESTION_AVAILABLE")
                => session.final_result \in {"LEVELF0", "LEVELJ0", "LEVELM0"}
    /\ \A start \in DOMAIN AllIncorrectEnd :
         /\ AllIncorrectEnd[start].is_finished
         /\ AllIncorrectEnd[start].failed
         /\ AllIncorrectEnd[start].final_result
                \in {"LEVELF0", "LEVELJ0", "LEVELM0"}
         /\ \A i \in DOMAIN AllIncorrectEnd[start].answer_history :
                ~AllIncorrectEnd[start].answer_history[i].is_correct

\* C23 witness: a junior session ended, failed, by its fourth incorrect
\* answer.
C23_Witness ==
    /\ session.starting_seniority = "junior"
    /\ session.is_finished
    /\ session.failed
    /\ session.final_result = "LEVELF0"
    /\ Correctness = <<FALSE, FALSE, FALSE, FALSE>>

\* The session was finished by an answer (a Terminate of its tree).
FinishedByTree ==
    session.is_finished /\ session.final_result # "NO_QUESTION_AVAILABLE"

\* For each tree, the sequences of BoolSeqs whose replay ends in a Terminate
\* on their last value, each with the label it ends with.
Terminating ==
    [ start \in {Seniorities[i] : i \in DOMAIN Seniorities} |->
        { <<seq, Replay(ReplayRoot(start), seq).session.final_result>> :
            seq \in { t \in BoolSeqs :
                        LET r == Replay(ReplayRoot(start), t)
                        IN  r.session.is_finished /\ r.unread = 0 } } ]

\* C24: the recorded sequence of a session finished by an answer is the only
\* terminating sequence of its tree that ends with the session's
\* final_result.
C24_LabelsAreInjective ==
    (Recognized /\ FinishedByTree) =>
        { e[1] : e \in { d \in Terminating[session.starting_seniority] :
                           d[2] = session.final_result } }
            = {Correctness}

\* C24 witness: a junior session finished with LEVELF5, a label the fresher
\* tree gives to another sequence.
C24_Witness ==
    /\ session.starting_seniority = "junior"
    /\ session.is_finished
    /\ session.final_result = "LEVELF5"
    /\ Correctness = <<FALSE, FALSE, TRUE, TRUE>>

\* The number of answers of each tree's all-correct path, and its label.
AllCorrectEnd ==
    [ fresher |-> [answers |-> 4, label |-> "LEVELJ5"],
      junior  |-> [answers |-> 4, label |-> "LEVELM5"],
      middle  |-> [answers |-> 4, label |-> "LEVELS5"],
      senior  |-> [answers |-> 2, label |-> "LEVELS5"] ]

\* C26: a session of a recognized starting tier whose recorded answers are
\* all correct holds at most the number of answers of AllCorrectEnd for its
\* tier; with fewer it is not finished by an answer, and with that number it
\* is finished, not failed, with the label of AllCorrectEnd.
C26_AllCorrectReachesTop ==
    (Recognized /\ \A i \in DOMAIN Correctness : Correctness[i]) =>
        LET end == AllCorrectEnd[session.starting_seniority]
        IN  /\ Len(Correctness) <= end.answers
            /\ Len(Correctness) < end.answers => ~FinishedByTree
            /\ Len(Correctness) = end.answers =>
                 /\ session.is_finished
                 /\ session.final_result = end.label
                 /\ ~session.failed

\* C26 witness: a senior session finished by its second correct answer.
C26_Witness ==
    /\ session.starting_seniority = "senior"
    /\ Correctness = <<TRUE, TRUE>>
    /\ session.is_finished
    /\ session.final_result = "LEVELS5"
    /\ Len(session.question_history) = 2

(***************************************************************************)
(* Tier crossings (C25)                                                     *)
(***************************************************************************)

\* C25: current_level is one of 1..5 and current_seniority is the starting
\* tier or, for a recognized starting tier, a tier next to it; once
\* current_seniority differs from the starting tier it never changes again,
\* so a session crosses at most once and does not come back.
C25_AtMostOneCrossing ==
    /\ [] ( /\ session.current_level \in Levels
            /\ \/ session.current_seniority = session.starting_seniority
               \/ /\ Recognized
                  /\ \E i \in DOMAIN Seniorities :
                       /\ Seniorities[i] = session.current_seniority
                       /\ \/ i = TierIndex(session.starting_seniority) + 1
                          \/ i + 1 = TierIndex(session.starting_seniority) )
    /\ [][ session.current_seniority # session.starting_seniority
             => session'.current_seniority = session.current_seniority
         ]_vars

\* C25 witness: a junior session that crossed to the middle tier and was
\* moved twice there.
C25_Witness ==
    /\ session.starting_seniority = "junior"
    /\ session.current_seniority = "middle"
    /\ session.path_state = "M2"
    /\ Len(session.answer_history) = 4
    /\ ~session.is_finished

====
